---- MODULE Spec2Model ----
(***************************************************************************)
(* cfgnorm: normalisation of context-free grammars (src/cfgnorm.py).       *)
(*                                                                         *)
(* A Grammar object is modelled as a record                                *)
(*   start  the start symbol                                               *)
(*   keys   the keys of the OrderedDict self.rules, in dictionary order    *)
(*   rules  the mapping key -> set of alternatives (tuples of symbols)     *)
(*   tcache the cached_property cell of `terminals`    ({} = not computed, *)
(*   ncache the cached_property cell of `nonterminals`  {v} = holds v)     *)
(* Symbols and texts are strings, alternatives are sequences of strings.   *)
(* An optional value is a set: {} is None, {v} is the value v.             *)
(***************************************************************************)
EXTENDS Integers, Sequences, FiniteSets, TLC

VARIABLES g, arg, op, err, pipe, aset, txt, src, parsed

vars == <<g, arg, op, err, pipe, aset, txt, src, parsed>>

\* ------------------------------------------------------------------ bounds

\* longest alternative of an input grammar
MaxLen == 3
\* most productions (lhs, alternative) of an input grammar
MaxProds == 3
\* most symbol occurrences on the right-hand sides of an input grammar
MaxSize == 3

\* ----------------------------------------------------------------- helpers

None == {}

Some(v) == {v}

Range(s) == {s[i] : i \in DOMAIN s}

\* the subsequence of s at the positions in idx, in order
RECURSIVE KeepSeq(_, _, _)
KeepSeq(s, idx, i) ==
    IF i > Len(s) THEN <<>>
    ELSE (IF i \in idx THEN <<s[i]>> ELSE <<>>) \o KeepSeq(s, idx, i + 1)

\* every sequence that lists the elements of the finite set S once each:
\* the orders in which Python may iterate over a set
RECURSIVE Orders(_)
Orders(S) ==
    IF S = {} THEN {<<>>}
    ELSE UNION {{<<x>> \o o : o \in Orders(S \ {x})} : x \in S}

\* ------------------------------------------------------- ordered dictionary
\* An OrderedDict / defaultdict(set): keys in insertion order and the mapping.

EmptyDict == [keys |-> <<>>, map |-> <<>>]

\* d[k] = v (a new key is appended, an old one keeps its place)
DictSet(d, k, v) ==
    [keys |-> IF k \in DOMAIN d.map THEN d.keys ELSE Append(d.keys, k),
     map  |-> [x \in DOMAIN d.map \cup {k} |-> IF x = k THEN v ELSE d.map[x]]]

\* defaultdict(set): d[k].add(opt)
DictAdd(d, k, opt) ==
    DictSet(d, k, (IF k \in DOMAIN d.map THEN d.map[k] ELSE {}) \cup {opt})

\* OrderedDict.move_to_end(k, last=False), for k a key of d
MoveToFront(keys, k) == <<k>> \o SelectSeq(keys, LAMBDA x : x # k)

\* ------------------------------------------------------------------ Grammar

\* Grammar.__init__: the outcome of Grammar(rules, start); KeyError when start
\* is no key of rules
Grammar(d, start) ==
    IF start \notin DOMAIN d.map
    THEN [err |-> "KeyError", ret |-> None]
    ELSE [err |-> "none",
          ret |-> Some([start  |-> start,
                        keys   |-> MoveToFront(d.keys, start),
                        rules  |-> d.map,
                        tcache |-> None,
                        ncache |-> None])]

\* the value of the property Grammar.nonterminals
nonterminals(self) ==
    IF self.ncache # None THEN CHOOSE v \in self.ncache : TRUE
    ELSE Range(self.keys)

\* the value of the property Grammar.terminals
terminals(self) ==
    IF self.tcache # None THEN CHOOSE v \in self.tcache : TRUE
    ELSE UNION {UNION {Range(opt) : opt \in self.rules[lhs]} :
                    lhs \in DOMAIN self.rules} \ DOMAIN self.rules

\* the object after a read of self.nonterminals / self.terminals
WithNonterminals(self) == [self EXCEPT !.ncache = Some(nonterminals(self))]

WithTerminals(self) == [self EXCEPT !.tcache = Some(terminals(self))]

\* Grammar.stringof
stringof(s, alphabet) == \A i \in DOMAIN s : s[i] \in alphabet

\* ---------------------------------------------------- nullable nonterminals

\* one pass of the for loop of _nullable_nonterminals over rules.items(),
\* from the i-th key on; new_nullable grows in place during the pass
RECURSIVE NullablePass(_, _, _)
NullablePass(self, i, new_nullable) ==
    IF i > Len(self.keys) THEN new_nullable
    ELSE LET lhs == self.keys[i]
         IN NullablePass(self, i + 1,
                IF \E opt \in self.rules[lhs] : stringof(opt, new_nullable)
                THEN new_nullable \cup {lhs}
                ELSE new_nullable)

\* the while loop of _nullable_nonterminals
RECURSIVE NullableLoop(_, _, _)
NullableLoop(self, nullable, new_nullable) ==
    IF new_nullable = nullable THEN nullable
    ELSE NullableLoop(self, new_nullable, NullablePass(self, 1, new_nullable))

\* _nullable_nonterminals with the loop left out: only the seed is returned
NullableSeedOnly(self) == {lhs \in DOMAIN self.rules : <<>> \in self.rules[lhs]}

_nullable_nonterminals(self) ==
    NullableLoop(self,
                 {lhs \in DOMAIN self.rules : <<>> \in self.rules[lhs]},
                 {})

\* ----------------------------------------------------- without_epsilon_rules

\* proper_powerset: the combinations of r elements for r in range(len(s))
proper_powerset(s) == {k \in SUBSET s : Cardinality(k) < Cardinality(s)}

\* the alternatives the inner loops of without_epsilon_rules add for (lhs, opt)
EpsilonOptions(lhs, opt, nullable) ==
    LET indices == {i \in DOMAIN opt : opt[i] \in nullable}
        new_opt(kept) ==
            KeepSeq(opt, {i \in DOMAIN opt : opt[i] \notin nullable \/ i \in kept}, 1)
    IN {n \in {new_opt(kept) : kept \in proper_powerset(indices)} :
            n # <<>> /\ n # <<lhs>>}

\* the loop "rhs.discard(())" left out of without_epsilon_rules
KeepEpsilon(rules) == rules

\* the loop of without_epsilon_rules over new_rules: rhs.discard(())
DiscardEpsilon(rules) == [lhs \in DOMAIN rules |-> rules[lhs] \ {<<>>}]

without_epsilon_rules(self) ==
    LET nullable == _nullable_nonterminals(self)
        copied == [keys |-> self.keys, map |-> DiscardEpsilon(self.rules)]
        added == [keys |-> copied.keys,
                  map  |-> [lhs \in DOMAIN self.rules |->
                              copied.map[lhs] \cup
                              UNION {EpsilonOptions(lhs, opt, nullable) :
                                         opt \in self.rules[lhs]}]]
        start == IF self.start \in nullable THEN self.start \o "'" ELSE self.start
        new_rules == IF self.start \in nullable
                     THEN DictSet(added, start, {<<>>, <<self.start>>})
                     ELSE added
        made == Grammar(new_rules, start)
    IN {[err |-> made.err, ret |-> made.ret, self |-> self, aset |-> nullable]}

\* ------------------------------------------------------------- unit pairs

\* the while loop of _unit_pairs: one round composes the pairs of the copy
RECURSIVE UnitPairsLoop(_, _)
UnitPairsLoop(unit_pairs, new_unit_pairs) ==
    IF unit_pairs = new_unit_pairs THEN unit_pairs
    ELSE UnitPairsLoop(new_unit_pairs,
             new_unit_pairs \cup
             UNION {{<<p[1], q[2]>> : q \in {r \in new_unit_pairs : r[1] = p[2]}} :
                        p \in new_unit_pairs})

\* the direct unit pairs of _unit_pairs
DirectUnitPairs(self) ==
    UNION {{<<lhs, opt[1]>> :
               opt \in {o \in self.rules[lhs] :
                           Len(o) = 1 /\ o[1] \in nonterminals(self)}} :
           lhs \in DOMAIN self.rules}

\* _unit_pairs with the closing loop left out
UnitPairsNotClosed(self) == DirectUnitPairs(self)

_unit_pairs(self) ==
    UnitPairsLoop({}, DirectUnitPairs(self))

\* -------------------------------------------------------- without_unit_rules

\* the first loop of without_unit_rules: new_rules[x].discard((y,))
DiscardUnits(map, unit_pairs) ==
    [x \in DOMAIN map |-> map[x] \ {<<p[2]>> : p \in {q \in unit_pairs : q[1] = x}}]

\* one iteration of the second loop: new_rules[x] |= new_rules[y]
Absorb(map, p) == [map EXCEPT ![p[1]] = map[p[1]] \cup map[p[2]]]

\* the second loop of without_unit_rules, run over the set unit_pairs in every
\* order Python may iterate it: S holds the mappings reached with the pairs
\* still to visit, the result is the set of mappings the loop can end with
RECURSIVE AbsorbAll(_)
AbsorbAll(S) ==
    IF \A s \in S : s.todo = {} THEN {s.map : s \in S}
    ELSE AbsorbAll(UNION {{[map |-> Absorb(s.map, p), todo |-> s.todo \ {p}] :
                              p \in s.todo} : s \in S})

without_unit_rules(self) ==
    LET unit_pairs == _unit_pairs(self)
        after == IF \E lhs \in DOMAIN self.rules : \E opt \in self.rules[lhs] : Len(opt) = 1
                 THEN WithNonterminals(self)
                 ELSE self
        discarded == DiscardUnits(self.rules, unit_pairs)
    IN {[err |-> made.err, ret |-> made.ret, self |-> after, aset |-> unit_pairs] :
           made \in {Grammar([keys |-> self.keys, map |-> m], self.start) :
                        m \in AbsorbAll({[map |-> discarded, todo |-> unit_pairs]})}}

\* --------------------------------------------------------- reachable symbols

\* the while loop of _reachable_symbols
RECURSIVE ReachableLoop(_, _, _)
ReachableLoop(self, reachable, new_reachable) ==
    IF reachable = new_reachable THEN reachable
    ELSE ReachableLoop(self, new_reachable,
             new_reachable \cup
             UNION {UNION {Range(opt) : opt \in self.rules[X]} :
                        X \in new_reachable \cap nonterminals(self)})

_reachable_symbols(self) == ReachableLoop(self, {}, {self.start})

\* -------------------------------------------------------- productive symbols

\* add on a set: what new_productive.add(lhs) would do were self.terminals a set
set_add(s, x) == [err |-> "none", val |-> s \cup {x}]

\* new_productive.add(lhs), where new_productive is the frozenset that
\* self.terminals returned: a frozenset has no method add
frozenset_add(s, x) == [err |-> "AttributeError", val |-> s]

\* the calls new_productive.add(lhs) of one pass, for the lhs in todo
RECURSIVE AddAll(_, _)
AddAll(s, todo) ==
    IF todo = {} THEN [err |-> "none", val |-> s]
    ELSE LET x == CHOOSE x \in todo : TRUE
             r == frozenset_add(s, x)
         IN IF r.err # "none" THEN r ELSE AddAll(r.val, todo \ {x})

\* the while loop of _productive_symbols; new_productive is the object held
\* in the cache cell of self.terminals, so the result carries its final value
RECURSIVE ProductiveLoop(_, _, _)
ProductiveLoop(self, productive, new_productive) ==
    IF new_productive = productive
    THEN [err |-> "none", val |-> productive, cell |-> new_productive]
    ELSE LET copy == new_productive
             hits == {lhs \in DOMAIN self.rules :
                         \E opt \in self.rules[lhs] : stringof(opt, copy)}
             r == AddAll(new_productive, hits)
         IN IF r.err # "none"
            THEN [err |-> r.err, val |-> {}, cell |-> r.val]
            ELSE ProductiveLoop(self, copy, r.val)

\* _productive_symbols: err, the set returned, and self after the call
_productive_symbols(self) ==
    LET r == ProductiveLoop(self, {}, terminals(self))
    IN [err |-> r.err, val |-> r.val,
        self |-> [self EXCEPT !.tcache = Some(r.cell)]]

\* ---------------------------------------------------------------- filtering

\* the loop of with_symbols from the i-th key on, over the defaultdict d
RECURSIVE WithSymbolsLoop(_, _, _, _)
WithSymbolsLoop(self, symbols, i, d) ==
    IF i > Len(self.keys) THEN d
    ELSE LET lhs == self.keys[i]
             kept == {opt \in self.rules[lhs] : stringof(opt, symbols)}
         IN WithSymbolsLoop(self, symbols, i + 1,
                IF lhs \in symbols /\ kept # {}
                THEN DictSet(d, lhs, kept)
                ELSE d)

with_symbols(self, symbols) ==
    Grammar(WithSymbolsLoop(self, symbols, 1, EmptyDict), self.start)

with_productive_symbols(self) ==
    LET a == _productive_symbols(self)
        made == with_symbols(self, a.val)
    IN IF a.err # "none"
       THEN {[err |-> a.err, ret |-> None, self |-> a.self, aset |-> {}]}
       ELSE {[err |-> made.err, ret |-> made.ret, self |-> a.self, aset |-> a.val]}

with_reachable_symbols(self) ==
    LET reachable == _reachable_symbols(self)
        made == with_symbols(self, reachable)
    IN {[err |-> made.err, ret |-> made.ret,
         self |-> WithNonterminals(self), aset |-> reachable]}

\* ------------------------------------------------------------ with_pair_rules

\* aux_format of with_pair_rules: f"{X}_{i}:{j}"
aux_format(X, i, j) == X \o "_" \o ToString(i) \o ":" \o ToString(j)

\* opt[-2:]
LastTwo(opt) == IF Len(opt) <= 2 THEN opt ELSE SubSeq(opt, Len(opt) - 1, Len(opt))

\* the loop "for j in range(len(opt) - 2)" from j on (opt[j] is opt[j + 1] here)
RECURSIVE PairChain(_, _, _, _, _)
PairChain(d, lhs, i, opt, j) ==
    IF j >= Len(opt) - 2 THEN d
    ELSE LET aux_lhs == IF j > 0 THEN aux_format(lhs, i, j) ELSE lhs
             aux_sym == aux_format(lhs, i, j + 1)
         IN PairChain(DictAdd(d, aux_lhs, <<opt[j + 1], aux_sym>>), lhs, i, opt, j + 1)

\* the body of "for i, opt in enumerate(rhs)" for one alternative
PairOption(d, lhs, i, opt) ==
    LET aux_lhs == IF Len(opt) > 2 THEN aux_format(lhs, i, Len(opt) - 3) ELSE lhs
    IN DictAdd(PairChain(d, lhs, i, opt, 0), aux_lhs, LastTwo(opt))

\* "for i, opt in enumerate(rhs)" with rhs iterated in the order given, from
\* its n-th element on (its index i is n - 1)
RECURSIVE PairOptions(_, _, _, _)
PairOptions(d, lhs, order, n) ==
    IF n > Len(order) THEN d
    ELSE PairOptions(PairOption(d, lhs, n - 1, order[n]), lhs, order, n + 1)

\* the outer loop of with_pair_rules from the k-th key on: D holds the
\* dictionaries new_rules can be, one for every order in which the sets rhs
\* seen so far may have been iterated
RECURSIVE PairRulesLoop(_, _, _)
PairRulesLoop(self, k, D) ==
    IF k > Len(self.keys) THEN D
    ELSE LET lhs == self.keys[k]
         IN PairRulesLoop(self, k + 1,
                UNION {{PairOptions(d, lhs, order, 1) :
                           order \in Orders(self.rules[lhs])} : d \in D})

with_pair_rules(self) ==
    {[err |-> made.err, ret |-> made.ret, self |-> self, aset |-> {}] :
        made \in {Grammar(d, self.start) : d \in PairRulesLoop(self, 1, {EmptyDict})}}

\* --------------------------------------------------------- with_unit_terminals

\* aux_format of with_unit_terminals: f"{X}#"
aux_terminal(X) == X \o "#"

\* the alternative with every terminal replaced by its auxiliary symbol
UnitTerminalOption(opt, terms) ==
    [i \in DOMAIN opt |-> IF opt[i] \in terms THEN aux_terminal(opt[i]) ELSE opt[i]]

\* "for t in self.terminals", in the order given, from its n-th element on
RECURSIVE UnitTerminalAux(_, _, _)
UnitTerminalAux(d, order, n) ==
    IF n > Len(order) THEN d
    ELSE UnitTerminalAux(DictAdd(d, aux_terminal(order[n]), <<order[n]>>), order, n + 1)

\* "for lhs, rhs in self.rules.items()" of with_unit_terminals from key k on
RECURSIVE UnitTerminalRules(_, _, _, _)
UnitTerminalRules(self, terms, k, d) ==
    IF k > Len(self.keys) THEN d
    ELSE LET lhs == self.keys[k]
             new_opts == {UnitTerminalOption(opt, terms) : opt \in self.rules[lhs]}
         IN UnitTerminalRules(self, terms, k + 1,
                IF new_opts = {} THEN d
                ELSE DictSet(d, lhs,
                         (IF lhs \in DOMAIN d.map THEN d.map[lhs] ELSE {}) \cup new_opts))

with_unit_terminals(self) ==
    LET terms == terminals(self)
    IN {[err |-> made.err, ret |-> made.ret, self |-> WithTerminals(self), aset |-> {}] :
           made \in {Grammar(UnitTerminalRules(self, terms, 1,
                                               UnitTerminalAux(EmptyDict, order, 1)),
                             self.start) : order \in Orders(terms)}}

\* ---------------------------------------------------------------- strings

\* the printable characters in the order of their code points (the double
\* quote, the backslash and the backquote left out): Python compares strings
\* by code point
CodeOrder ==
    " !#$%&'()*+,-./0123456789:;<=>?@ABCDEFGHIJKLMNOPQRSTUVWXYZ[]^_abcdefghijklmnopqrstuvwxyz{|}~"

Ord(c) == CHOOSE i \in 1..Len(CodeOrder) : SubSeq(CodeOrder, i, i) = c

\* a < b on str
RECURSIVE StrLess(_, _)
StrLess(a, b) ==
    IF b = "" THEN FALSE
    ELSE IF a = "" THEN TRUE
    ELSE IF Head(a) # Head(b) THEN Ord(Head(a)) < Ord(Head(b))
    ELSE StrLess(Tail(a), Tail(b))

\* s < t on tuples of str
RECURSIVE TupleLess(_, _)
TupleLess(s, t) ==
    IF t = <<>> THEN FALSE
    ELSE IF s = <<>> THEN TRUE
    ELSE IF s[1] # t[1] THEN StrLess(s[1], t[1])
    ELSE TupleLess(Tail(s), Tail(t))

\* sorted(S) for a set of str
RECURSIVE SortedStrs(_)
SortedStrs(S) ==
    IF S = {} THEN <<>>
    ELSE LET m == CHOOSE x \in S : \A y \in S \ {x} : StrLess(x, y)
         IN <<m>> \o SortedStrs(S \ {m})

\* sorted(S) for a set of tuples of str
RECURSIVE SortedTuples(_)
SortedTuples(S) ==
    IF S = {} THEN <<>>
    ELSE LET m == CHOOSE x \in S : \A y \in S \ {x} : TupleLess(x, y)
         IN <<m>> \o SortedTuples(S \ {m})

\* sep.join(parts)
RECURSIVE Join(_, _)
Join(sep, parts) ==
    IF parts = <<>> THEN ""
    ELSE IF Len(parts) = 1 THEN parts[1]
    ELSE parts[1] \o sep \o Join(sep, Tail(parts))

\* s.find(sep) from position i on: the first position of sep, 0 when absent
RECURSIVE Find(_, _, _)
Find(s, sep, i) ==
    IF i + Len(sep) - 1 > Len(s) THEN 0
    ELSE IF SubSeq(s, i, i + Len(sep) - 1) = sep THEN i
    ELSE Find(s, sep, i + 1)

\* s.split(sep)
RECURSIVE Split(_, _)
Split(s, sep) ==
    LET at == Find(s, sep, 1)
    IN IF at = 0 THEN <<s>>
       ELSE <<SubSeq(s, 1, at - 1)>> \o Split(SubSeq(s, at + Len(sep), Len(s)), sep)

Whitespace == {" ", "\n", "\t", "\r"}

\* s.strip()
RECURSIVE Strip(_)
Strip(s) ==
    IF s = "" THEN s
    ELSE IF Head(s) \in Whitespace THEN Strip(Tail(s))
    ELSE IF SubSeq(s, Len(s), Len(s)) \in Whitespace THEN Strip(SubSeq(s, 1, Len(s) - 1))
    ELSE s

\* tuple(s): the characters of s
Chars(s) == [i \in 1..Len(s) |-> SubSeq(s, i, i)]

\* ------------------------------------------------------------------ to_string

\* the alternative as to_string prints it
FormatOption(opt) == IF opt # <<>> THEN Join(" ", opt) ELSE "%"

\* format(lhs, rhs) of to_string
Format(lhs, rhs) ==
    LET opts == SortedTuples(rhs)
    IN lhs \o " -> "
       \o Join(" | ", [i \in DOMAIN opts |-> FormatOption(opts[i])])
       \o " ;;\n"

to_string(self) ==
    LET others == SortedStrs(DOMAIN self.rules \ {self.start})
    IN Format(self.start, self.rules[self.start])
       \o Join("", [i \in DOMAIN others |-> Format(others[i], self.rules[others[i]])])

\* ---------------------------------------------------------------- from_string

\* the loop over rhs.split("|") from the n-th option on
RECURSIVE ParseOptions(_, _, _, _)
ParseOptions(d, lhs, options, n) ==
    IF n > Len(options) THEN d
    ELSE LET option == Strip(options[n])
         IN ParseOptions(DictAdd(d, lhs, IF option = "%" THEN <<>> ELSE Chars(option)),
                         lhs, options, n + 1)

\* the loop over s.split(";;") from the n-th line on; start is None or the
\* left-hand side of the first record
RECURSIVE ParseLines(_, _, _, _)
ParseLines(lines, n, d, start) ==
    IF n > Len(lines) THEN [err |-> "none", rules |-> d, start |-> start]
    ELSE LET line == Strip(lines[n])
             at == Find(line, "->", 1)
             lhs == IF at = 0 THEN line ELSE SubSeq(line, 1, at - 1)
             rhs == IF at = 0 THEN "" ELSE SubSeq(line, at + 2, Len(line))
         IN IF line = "" THEN ParseLines(lines, n + 1, d, start)
            ELSE IF rhs = "" THEN [err |-> "ValueError", rules |-> d, start |-> start]
            ELSE ParseLines(lines, n + 1,
                     ParseOptions(d, Strip(lhs), Split(Strip(rhs), "|"), 1),
                     IF start = None THEN Some(Strip(lhs)) ELSE start)

\* Grammar.from_string: err and the grammar returned
from_string(s) ==
    LET r == ParseLines(Split(s, ";;"), 1, EmptyDict, None)
    IN IF r.err # "none" THEN [err |-> r.err, ret |-> None]
       ELSE IF r.start = None THEN [err |-> "KeyError", ret |-> None]
       ELSE Grammar(r.rules, CHOOSE x \in r.start : TRUE)

\* ------------------------------------------------------------ input grammars

\* The input grammars: the start symbol S, the rule keys a prefix of S, A, B
\* over the symbols S, A, B, a (a symbol that is no key is a terminal), and the
\* grammars over S, S', a in which S' is a key already.
Symbols == <<"S", "A", "B", "a">>

PrimedSymbols == <<"S", "S'", "a">>

RECURSIVE SeqsUpTo(_, _)
SeqsUpTo(S, n) ==
    IF n = 0 THEN {<<>>}
    ELSE LET shorter == SeqsUpTo(S, n - 1)
         IN shorter \cup {Append(s, x) : s \in {t \in shorter : Len(t) = n - 1}, x \in S}

\* a number for the alternative, one for each: its symbols' positions in
\* syms as the digits of a number
RECURSIVE Code(_, _)
Code(opt, syms) ==
    IF opt = <<>> THEN 0
    ELSE (CHOOSE i \in DOMAIN syms : syms[i] = opt[Len(opt)])
         + (Len(syms) + 1) * Code(SubSeq(opt, 1, Len(opt) - 1), syms)

\* the productions lhs -> opt of the input grammars with the keys given, by
\* the length of opt, each with a rank that orders them
Productions(keys, syms) ==
    [n \in 0..MaxLen |->
        {[lhs |-> keys[i], opt |-> o, rank |-> Code(<<keys[i]>> \o o, syms)] :
            i \in DOMAIN keys,
            o \in {s \in SeqsUpTo(Range(syms), MaxLen) : Len(s) = n}}]

ProductionsS == Productions(<<"S">>, Symbols)

ProductionsSA == Productions(<<"S", "A">>, Symbols)

ProductionsSAB == Productions(<<"S", "A", "B">>, Symbols)

ProductionsPrimed == Productions(<<"S", "S'">>, PrimedSymbols)

\* the sets of n productions among prods of total size <= MaxSize, each built
\* once, in the order of the ranks, with its size and its highest rank
RECURSIVE ProdSets(_, _)
ProdSets(prods, n) ==
    IF n = 0 THEN {[P |-> {}, size |-> 0, top |-> -1]}
    ELSE UNION {{[P |-> f.P \cup {<<p.lhs, p.opt>>},
                  size |-> f.size + Len(p.opt),
                  top |-> p.rank] :
                    p \in {q \in UNION {prods[k] :
                                           k \in {m \in DOMAIN prods : f.size + m <= MaxSize}} :
                              q.rank > f.top}} :
                f \in ProdSets(prods, n - 1)}

InputGrammar(keys, P) ==
    [start  |-> keys[1],
     keys   |-> keys,
     rules  |-> [lhs \in Range(keys) |-> {p[2] : p \in {q \in P : q[1] = lhs}}],
     tcache |-> None,
     ncache |-> None]

\* the keys of the input grammars, each with the productions to draw from
Families ==
    {[keys |-> <<"S">>, prods |-> ProductionsS],
     [keys |-> <<"S", "A">>, prods |-> ProductionsSA],
     [keys |-> <<"S", "A", "B">>, prods |-> ProductionsSAB],
     [keys |-> <<"S", "S'">>, prods |-> ProductionsPrimed]}

\* ---------------------------------------------------------------- pipelines
\* The pipelines the static methods of Pipeline build, as the flat list of
\* the Grammar methods Pipeline.__call__ runs in order.

Pipeline_with_useful_symbols == <<"with_productive_symbols", "with_reachable_symbols">>

Pipeline_chomsky_normal_form ==
    <<"without_epsilon_rules", "without_unit_rules">>
    \o Pipeline_with_useful_symbols
    \o <<"with_pair_rules", "with_unit_terminals">>

Pipelines ==
    {<<"without_epsilon_rules">>, <<"without_unit_rules">>,
     <<"with_productive_symbols">>, <<"with_reachable_symbols">>,
     <<"with_pair_rules">>, <<"with_unit_terminals">>,
     Pipeline_with_useful_symbols, Pipeline_chomsky_normal_form}

\* ------------------------------------------------------------ state machine
\* g       the grammar the pipeline holds (its variable g)
\* arg     the grammar object the last step was called on, as it is after the call
\* op      the Grammar method the last step ran ("init": none yet)
\* err     the exception that ended the run ("none": none)
\* pipe    the steps the pipeline still has to run
\* aset    the set the analysis of the last step returned
\* txt     the last text to_string wrote ("": none)
\* src     the grammar txt is the serialisation of
\* parsed  the outcome of from_string on txt

Init ==
    /\ \E fam \in Families, n \in 0..MaxProds :
          \E f \in ProdSets(fam.prods, n) : g = InputGrammar(fam.keys, f.P)
    /\ arg = g
    /\ op = "init"
    /\ err = "none"
    /\ pipe \in Pipelines
    /\ aset = {}
    /\ txt = ""
    /\ src = None
    /\ parsed = None

\* one iteration of the loop of Pipeline.__call__: g = a(g)
Step(name, outcomes) ==
    /\ err = "none"
    /\ pipe # <<>>
    /\ Head(pipe) = name
    /\ \E o \in outcomes :
          /\ op' = name
          /\ arg' = o.self
          /\ aset' = o.aset
          /\ err' = o.err
          /\ IF o.err = "none"
             THEN /\ g' = CHOOSE r \in o.ret : TRUE
                  /\ pipe' = Tail(pipe)
                  /\ txt' = to_string(g')
                  /\ src' = Some(g')
                  /\ parsed' = None
             ELSE /\ g' = o.self
                  /\ pipe' = pipe
                  /\ UNCHANGED <<txt, src, parsed>>

Pipeline_without_epsilon_rules ==
    Step("without_epsilon_rules", without_epsilon_rules(g))

Pipeline_without_unit_rules ==
    Step("without_unit_rules", without_unit_rules(g))

Pipeline_with_productive_symbols ==
    Step("with_productive_symbols", with_productive_symbols(g))

Pipeline_with_reachable_symbols ==
    Step("with_reachable_symbols", with_reachable_symbols(g))

Pipeline_with_pair_rules ==
    Step("with_pair_rules", with_pair_rules(g))

Pipeline_with_unit_terminals ==
    Step("with_unit_terminals", with_unit_terminals(g))

\* str(g) / print(g): the grammar held is serialised
Grammar_to_string ==
    /\ err = "none"
    /\ txt' = to_string(g)
    /\ src' = Some(g)
    /\ parsed' = None
    /\ UNCHANGED <<g, arg, op, err, pipe, aset>>

\* Grammar.from_string(txt): the text written last is parsed
Grammar_from_string ==
    /\ err = "none"
    /\ parsed' = Some(from_string(txt))
    /\ UNCHANGED <<g, arg, op, err, pipe, aset, txt, src>>

Next ==
    \/ Pipeline_without_epsilon_rules
    \/ Pipeline_without_unit_rules
    \/ Pipeline_with_productive_symbols
    \/ Pipeline_with_reachable_symbols
    \/ Pipeline_with_pair_rules
    \/ Pipeline_with_unit_terminals

Spec == Init /\ [][Next]_vars

\* the pipelines together with the texts written and read back
NextText ==
    \/ Next
    \/ Grammar_to_string
    \/ Grammar_from_string

SpecText == Init /\ [][NextText]_vars

\* ------------------------------------------------- reference definitions
\* What the claims speak of, defined apart from the code's loops.

\* the symbols on the right-hand sides of G
RhsSymbols(G) ==
    UNION {UNION {Range(opt) : opt \in G.rules[X]} : X \in DOMAIN G.rules}

\* F^n(N) for F(N) = the nonterminals with an alternative over N
RECURSIVE NullableRounds(_, _, _)
NullableRounds(G, N, n) ==
    IF n = 0 THEN N
    ELSE NullableRounds(G,
             {X \in DOMAIN G.rules :
                 \E opt \in G.rules[X] : \A i \in DOMAIN opt : opt[i] \in N},
             n - 1)

\* the least set of nonterminals closed under "some alternative is empty or
\* over the set": the nonterminals that derive the empty string
LeastNullable(G) == NullableRounds(G, {}, Cardinality(DOMAIN G.rules))

\* F^n(P) for F(P) = the terminals and the nonterminals with an alternative over P
RECURSIVE ProductiveRounds(_, _, _)
ProductiveRounds(G, P, n) ==
    IF n = 0 THEN P
    ELSE ProductiveRounds(G,
             (RhsSymbols(G) \ DOMAIN G.rules) \cup
             {X \in DOMAIN G.rules :
                 \E opt \in G.rules[X] : \A i \in DOMAIN opt : opt[i] \in P},
             n - 1)

\* the least set with every terminal and every nonterminal that has an
\* alternative over the set
LeastProductive(G) == ProductiveRounds(G, {}, Cardinality(DOMAIN G.rules) + 1)

\* the pairs (X, Y) with the alternative (Y) in X's rule, Y a nonterminal
DirectUnit(G) ==
    {p \in (DOMAIN G.rules) \X (DOMAIN G.rules) : <<p[2]>> \in G.rules[p[1]]}

\* the transitive closure of R, by adding the paths through one node at a time
RECURSIVE ClosureVia(_, _)
ClosureVia(R, nodes) ==
    IF nodes = {} THEN R
    ELSE LET k == CHOOSE k \in nodes : TRUE
             Q == ClosureVia(R, nodes \ {k})
         IN Q \cup {p \in {<<a[1], b[2]>> : a \in Q, b \in Q} :
                       <<p[1], k>> \in Q /\ <<k, p[2]>> \in Q}

UnitClosure(G) == ClosureVia(DirectUnit(G), DOMAIN G.rules)

\* the alternatives of X that are not a single nonterminal
NonUnit(G, X) ==
    {opt \in G.rules[X] : ~(Len(opt) = 1 /\ opt[1] \in DOMAIN G.rules)}

\* opt with the symbols at any set of its positions held by symbols of N dropped
Drops(opt, N) ==
    {KeepSeq(opt, DOMAIN opt \ D, 1) : D \in SUBSET {i \in DOMAIN opt : opt[i] \in N}}

AllDrops(G, X, N) == UNION {Drops(opt, N) : opt \in G.rules[X]}

\* every alternative is one terminal or two nonterminals
ChomskyShape(G) ==
    \A X \in DOMAIN G.rules : \A opt \in G.rules[X] :
        \/ Len(opt) = 1 /\ opt[1] \notin DOMAIN G.rules
        \/ Len(opt) = 2 /\ opt[1] \in DOMAIN G.rules /\ opt[2] \in DOMAIN G.rules

\* no empty alternative, no single-nonterminal alternative, lengths 1 or 2
Binarized(G) ==
    \A X \in DOMAIN G.rules : \A opt \in G.rules[X] :
        /\ Len(opt) \in {1, 2}
        /\ ~(Len(opt) = 1 /\ opt[1] \in DOMAIN G.rules)

\* what a caller can see of a grammar object
Observed(G) ==
    [start |-> G.start, rules |-> G.rules,
     terminals |-> terminals(G), nonterminals |-> nonterminals(G)]

Rewrites ==
    {"without_epsilon_rules", "without_unit_rules", "with_productive_symbols",
     "with_reachable_symbols", "with_pair_rules", "with_unit_terminals"}

\* the last step was the method named and it returned a grammar, now in g;
\* arg is the grammar it was called on
Returned(name) == op = name /\ err = "none"

\* ------------------------------------------------------------------- claims

\* C1: every rewrite operation returns a Grammar and never ends in an error,
\* for every grammar whose start is a key of its rules (a start symbol
\* without alternatives and a grammar without terminals included).
C1_RewritesNeverFail == op \in Rewrites => err = "none"

\* C2: on an epsilon-free, unit-free grammar whose alternatives all have
\* length 1 or 2, with_unit_terminals returns a grammar in which every
\* alternative is one terminal or two nonterminals, and an alternative that
\* is a single terminal stays as it is.
C2_UnitTerminalsGiveChomskyShape ==
    (Returned("with_unit_terminals") /\ Binarized(arg)) =>
        /\ ChomskyShape(g)
        /\ \A X \in DOMAIN arg.rules :
               {opt \in arg.rules[X] : Len(opt) = 1} \subseteq g.rules[X]

\* C3: after without_unit_rules the alternatives of X are the non-unit
\* alternatives of X together with those of every Y with (X, Y) in the
\* transitive closure of the direct unit relation; so no alternative is a
\* single nonterminal.
C3_UnitRulesAbsorbed ==
    Returned("without_unit_rules") =>
        /\ DOMAIN g.rules = DOMAIN arg.rules
        /\ \A X \in DOMAIN arg.rules :
               g.rules[X] =
                   NonUnit(arg, X) \cup
                   UNION {NonUnit(arg, p[2]) :
                              p \in {q \in UnitClosure(arg) : q[1] = X}}
        /\ \A X \in DOMAIN g.rules : NonUnit(g, X) = g.rules[X]

\* C3 witness: the chain S -> A, A -> B, B -> a gives S the alternative (a).
C3_Witness ==
    /\ Returned("without_unit_rules")
    /\ arg.rules = [X \in {"S", "A", "B"} |->
                        IF X = "S" THEN {<<"A">>}
                        ELSE IF X = "A" THEN {<<"B">>} ELSE {<<"a">>}]
    /\ g.rules["S"] = {<<"a">>}

\* C4: after without_epsilon_rules only a new start symbol has an empty
\* alternative: when the start is nullable the result's start is start' with
\* the alternatives () and (start) and no other nonterminal has an empty
\* alternative; otherwise the start is unchanged and no nonterminal has one.
C4_EpsilonOnlyAtNewStart ==
    Returned("without_epsilon_rules") =>
        IF arg.start \in LeastNullable(arg)
        THEN /\ g.start = arg.start \o "'"
             /\ g.rules[g.start] = {<<>>, <<arg.start>>}
             /\ \A X \in DOMAIN g.rules \ {g.start} : <<>> \notin g.rules[X]
        ELSE /\ g.start = arg.start
             /\ \A X \in DOMAIN g.rules : <<>> \notin g.rules[X]

\* C4 witness: a nullable start and another nonterminal with an empty
\* alternative; the result starts at S'.
C4_Witness ==
    /\ Returned("without_epsilon_rules")
    /\ arg.start \in LeastNullable(arg)
    /\ \E X \in DOMAIN arg.rules \ {arg.start} : <<>> \in arg.rules[X]
    /\ g.start = "S'"

\* C5: Grammar.from_string(G.to_string()) has the start symbol and the rule
\* mapping of G.
C5_RoundTrip ==
    \A p \in parsed : \A G \in src :
        /\ p.err = "none"
        /\ \A r \in p.ret : r.start = G.start /\ r.rules = G.rules

\* C6: _nullable_nonterminals returns the least set N with X in N whenever
\* some alternative of X is empty or consists of symbols of N.
C6_NullableIsLeastFixpoint ==
    op = "without_epsilon_rules" => aset = LeastNullable(arg)

\* C6 witness: S is nullable without having an empty alternative.
C6_Witness ==
    /\ op = "without_epsilon_rules"
    /\ "S" \in aset
    /\ <<>> \notin arg.rules["S"]

\* C7: every step of a pipeline leaves the grammar it is called on as it was:
\* its start, its rules and its terminals and nonterminals are, after the
\* call, what they were before it.
C7_InputUnchanged ==
    [][(pipe' # pipe \/ err' # err) => Observed(arg') = Observed(g)]_vars

\* C7 witness: the second step of the normal-form pipeline has run and its
\* result differs from the grammar it was called on.
C7_Witness ==
    /\ Returned("without_unit_rules")
    /\ pipe = <<"with_productive_symbols", "with_reachable_symbols",
                "with_pair_rules", "with_unit_terminals">>
    /\ arg.ncache # None
    /\ g.rules # arg.rules

\* the nonterminals with_pair_rules made
Helpers == DOMAIN g.rules \ (DOMAIN arg.rules \cup RhsSymbols(arg))

\* C8: with_pair_rules turns an alternative (s1, ..., sn), n > 2, of X into
\* the chain X -> (s1, X1), X1 -> (s2, X2), ..., X(n-2) -> (s(n-1), sn):
\* every helper on a right-hand side is a key, every helper key is used, and
\* the last pair belongs to the last helper.
C8_PairChainClosed ==
    Returned("with_pair_rules") =>
        /\ RhsSymbols(g) \subseteq DOMAIN g.rules \cup RhsSymbols(arg)
        /\ Helpers \subseteq RhsSymbols(g)
        /\ \A X \in DOMAIN arg.rules :
           \A opt \in {o \in arg.rules[X] : Len(o) > 2} :
               \E h \in [1..(Len(opt) - 2) -> Helpers] :
                   /\ <<opt[1], h[1]>> \in g.rules[X]
                   /\ \A j \in 1..(Len(opt) - 3) :
                          <<opt[j + 1], h[j + 1]>> \in g.rules[h[j]]
                   /\ <<opt[Len(opt) - 1], opt[Len(opt)]>> \in g.rules[h[Len(opt) - 2]]

\* C9: _productive_symbols returns the least set with every terminal and
\* every nonterminal that has an alternative over the set, the empty
\* alternative included.
C9_ProductiveIsLeastFixpoint ==
    op = "with_productive_symbols" =>
        /\ err # "AttributeError"
        /\ aset = LeastProductive(arg)

\* C10: after without_epsilon_rules the alternatives of X are the sequences
\* got from an alternative of X by dropping the symbols at any set of its
\* nullable positions, the empty ones and (X) left out.
C10_DropsWithoutSelfLoop ==
    Returned("without_epsilon_rules") =>
        \A X \in DOMAIN arg.rules :
            g.rules[X] = AllDrops(arg, X, LeastNullable(arg)) \ {<<>>, <<X>>}

====
